---- MODULE Spec2Model ----
(***************************************************************************)
(* calculate_ndvi of NvidiaCalculator.py as a state machine.               *)
(*                                                                         *)
(* One run of calculate_ndvi(input_path, output_path, red_band_num,        *)
(* nir_band_num): the source dataset is opened, the two band numbers are   *)
(* validated, the bands are read and converted to float32, the index is    *)
(* computed, the output metadata is derived, the destination is created    *)
(* and written, and the two `with` blocks release their handles.  An       *)
(* exception raised at any step unwinds through the enclosing `with`       *)
(* blocks to one of the two `except` clauses, which print and return.      *)
(*                                                                         *)
(* Numbers.  A band sample is an integer of the source's pixel type.       *)
(* astype(np.float32) rounds it to a 24 bit significand (RoundF32), and    *)
(* so do the float32 subtraction and addition.  The quotient is kept as    *)
(* the exact ratio n/d (in lowest terms, d > 0) of its two float32         *)
(* operands; its last rounding to float32, at most half an ulp, is not     *)
(* represented, nor is the sign of a zero.                                 *)
(***************************************************************************)
EXTENDS Integers, Sequences, FiniteSets, TLC

(* ---------------------------- bounds ----------------------------------- *)
MaxBands  == 2      \* largest band count of a source raster
MaxPixels == 2      \* largest height * width of a source raster

(* ------------------------- float32 arithmetic -------------------------- *)
Pow24 == 16777216   \* 2^24: float32 has a 24 bit significand

RECURSIVE Ulp(_)
Ulp(a) == IF a < Pow24 THEN 1 ELSE 2 * Ulp(a \div 2)

\* round a non-negative integer to the nearest float32, ties to even
RoundMag(a) ==
    LET u == Ulp(a)
        q == a \div u
        r == a % u
    IN  IF 2 * r < u THEN q * u
        ELSE IF 2 * r > u THEN (q + 1) * u
        ELSE IF q % 2 = 0 THEN q * u ELSE (q + 1) * u

RoundF32(n) == IF n < 0 THEN 0 - RoundMag(0 - n) ELSE RoundMag(n)

Abs(n) == IF n < 0 THEN 0 - n ELSE n

RECURSIVE GCD(_, _)
GCD(a, b) == IF b = 0 THEN a ELSE GCD(b, a % b)

\* float values of the ndvi array
NaN      == [k |-> "nan", n |-> 0, d |-> 0]
Inf(s)   == [k |-> "inf", n |-> s, d |-> 0]
Fin(n, d) ==
    LET g == GCD(Abs(n), Abs(d))
        s == IF d < 0 THEN 0 - 1 ELSE 1
    IN  [k |-> "fin", n |-> s * (n \div g), d |-> s * (d \div g)]
Zero     == [k |-> "fin", n |-> 0, d |-> 1]
One      == [k |-> "fin", n |-> 1, d |-> 1]
MinusOne == [k |-> "fin", n |-> 0 - 1, d |-> 1]

\* .astype(np.float32) of one sample
astype(v) == RoundF32(v)

F32Sub(a, b) == RoundF32(a - b)
F32Add(a, b) == RoundF32(a + b)

F32DivTrunc(a, b) ==
    IF b = 0
    THEN IF a = 0 THEN NaN ELSE Inf(IF a < 0 THEN 0 - 1 ELSE 1)
    ELSE Fin((IF (a < 0) = (b < 0) THEN 1 ELSE 0 - 1) * (Abs(a) \div Abs(b)), 1)

\* float division under np.errstate(divide='ignore', invalid='ignore')
F32Div(a, b) ==
    IF b = 0
    THEN IF a = 0 THEN NaN ELSE Inf(IF a < 0 THEN 0 - 1 ELSE 1)
    ELSE Fin(a, b)

NanKept(x) == x

\* ndvi[np.isnan(ndvi)] = 0
NanToZero(x) == IF x.k = "nan" THEN Zero ELSE x

InfKept(x) == x

\* ndvi[np.isinf(ndvi)] = 0
InfToZero(x) == IF x.k = "inf" THEN Zero ELSE x

ClipNone(x) == x

ClipZeroOne(x) ==
    IF x.k = "nan" THEN x
    ELSE IF x.k = "inf" THEN (IF x.n < 0 THEN Zero ELSE One)
    ELSE IF x.n < 0 THEN Zero
    ELSE IF x.n > x.d THEN One
    ELSE x

\* np.clip(ndvi, -1, 1) of one element
Clip(x) ==
    IF x.k = "nan" THEN x
    ELSE IF x.k = "inf" THEN (IF x.n < 0 THEN MinusOne ELSE One)
    ELSE IF x.n < 0 - x.d THEN MinusOne
    ELSE IF x.n > x.d THEN One
    ELSE x

\* lines 36-44 for one pixel of the float32 bands
NdviPixel(r, n) == Clip(InfToZero(NanToZero(F32Div(F32Sub(n, r), F32Add(n, r)))))

\* lines 36-44, elementwise over the two arrays
ComputeNdvi(redArr, nirArr) ==
    [i \in DOMAIN redArr |-> NdviPixel(redArr[i], nirArr[i])]

(* ------------------------------ rasters -------------------------------- *)
NoneVal == "None"

\* a nodata entry: <<>> is Python's None, <<v>> the number v
NoData  == <<>>
NoMeta  == [driver |-> NoneVal, dtype |-> NoneVal, nodata |-> NoData,
            width |-> 0, height |-> 0, count |-> 0,
            crs |-> NoneVal, transform |-> <<>>]

DTypes == {"uint16", "int16", "int32"}

\* samples a band of the given pixel type may hold
Samples(t) ==
    IF t = "uint16" THEN {0, 1000, 3000}
    ELSE IF t = "int16" THEN {0 - 3000, 0 - 1000, 1000}
    ELSE {0 - 16777216, 0, 16777217}

GeoSamples ==
    { [driver |-> "GTiff", crs |-> "EPSG:4326",
       transform |-> <<1, 0, 140, 0, 0 - 1, 0 - 35>>, nodata |-> NoData],
      [driver |-> "HFA", crs |-> "EPSG:32633",
       transform |-> <<30, 0, 500000, 0, 0 - 30, 4000000>>, nodata |-> <<0>>] }

Shapes == { s \in (1..MaxPixels) \X (1..MaxPixels) : s[1] * s[2] <= MaxPixels }

SourceMetas ==
    { [driver |-> g.driver, dtype |-> t, nodata |-> g.nodata,
       width |-> s[2], height |-> s[1], count |-> c,
       crs |-> g.crs, transform |-> g.transform] :
         g \in GeoSamples, t \in DTypes, s \in Shapes, c \in 1..MaxBands }

\* what the input path may hold
InputFiles ==
    { [kind |-> "missing", meta |-> NoMeta], [kind |-> "corrupt", meta |-> NoMeta] }
    \cup { [kind |-> "raster", meta |-> m] : m \in SourceMetas }

\* the arrays src.read(i) may return for a dataset with metadata m
BandArrays(m) == [1..(m.height * m.width) -> Samples(m.dtype)]

AbsentFile == [state |-> "absent", meta |-> NoMeta, data |-> <<>>, written |-> FALSE]
OldFile    == [state |-> "old", meta |-> NoMeta, data |-> <<>>, written |-> FALSE]

ValidBandsOr(count, redNum, nirNum) ==
    (0 < redNum /\ redNum <= count) \/ (0 < nirNum /\ nirNum <= count)

\* line 22: 0 < red_band_num <= src.count and 0 < nir_band_num <= src.count
ValidBands(count, redNum, nirNum) ==
    (0 < redNum /\ redNum <= count) /\ (0 < nirNum /\ nirNum <= count)

UpdateMetaNoNodata(meta) ==
    [meta EXCEPT !.driver = "GTiff", !.count = 1, !.dtype = "float32"]

\* lines 49-58: src.meta.copy() followed by update({...})
UpdateMeta(meta) ==
    [meta EXCEPT !.driver = "GTiff", !.count = 1, !.dtype = "float32",
                 !.nodata = <<0 - 9999>>]

(* ------------------------------- state --------------------------------- *)
VARIABLES
    pc,             \* position in calculate_ndvi
    input_file,     \* what input_path holds
    output_file,    \* what output_path holds
    preexisting,    \* whether output_path held a file before the call
    red_band_num, nir_band_num,
    src,            \* handle of the source dataset: none, open, closed
    srcMeta,        \* src.meta
    redRaw, nirRaw, \* the arrays returned by src.read
    red, nir,       \* the float32 arrays
    ndvi,
    out_meta,
    dest,           \* handle of the destination dataset
    exc,            \* the exception raised, "None" if none
    failedAt,       \* the step that raised it
    steps,          \* the pipeline steps run so far
    released,       \* the handles released so far, in order
    misuse,         \* a handle was used or released while not open
    stdout,         \* what was printed
    ret,            \* the value returned to the caller
    uncaught        \* the exception that leaves calculate_ndvi

vars == <<pc, input_file, output_file, preexisting, red_band_num, nir_band_num,
          src, srcMeta, redRaw, nirRaw, red, nir, ndvi, out_meta, dest, exc,
          failedAt, steps, released, misuse, stdout, ret, uncaught>>

Init ==
    /\ pc = "open"
    /\ input_file \in InputFiles
    /\ preexisting \in BOOLEAN
    /\ output_file = IF preexisting THEN OldFile ELSE AbsentFile
    /\ red_band_num \in (0 - 1)..(MaxBands + 1)
    /\ nir_band_num \in (0 - 1)..(MaxBands + 1)
    /\ src = "none"
    /\ srcMeta = NoMeta
    /\ redRaw = <<>> /\ nirRaw = <<>>
    /\ red = <<>> /\ nir = <<>>
    /\ ndvi = <<>>
    /\ out_meta = NoMeta
    /\ dest = "none"
    /\ exc = "None"
    /\ failedAt = "none"
    /\ steps = <<>>
    /\ released = <<>>
    /\ misuse = FALSE
    /\ stdout = "none"
    /\ ret = "pending"
    /\ uncaught = "None"

\* an exception of class e raised by step s, with the next position p
Raise(e, s, p) ==
    /\ exc' = e
    /\ failedAt' = s
    /\ pc' = p

\* line 19: rasterio.open(input_path)
Open ==
    /\ pc = "open"
    /\ steps' = Append(steps, "open")
    /\ \/ /\ input_file.kind = "raster"
          /\ src' = "open"
          /\ srcMeta' = input_file.meta
          /\ pc' = "validateBands"
          /\ UNCHANGED <<exc, failedAt>>
       \/ /\ input_file.kind = "missing"
          /\ \E e \in {"FileNotFoundError", "RasterioIOError"} :
                Raise(e, "open", "except")
          /\ UNCHANGED <<src, srcMeta>>
       \/ /\ input_file.kind = "corrupt"
          /\ Raise("RasterioIOError", "open", "except")
          /\ UNCHANGED <<src, srcMeta>>
    /\ UNCHANGED <<input_file, output_file, preexisting, red_band_num,
                   nir_band_num, redRaw, nirRaw, red, nir, ndvi, out_meta,
                   dest, released, misuse, stdout, ret, uncaught>>

ValidateBandsContinue ==
    /\ pc = "validateBands"
    /\ steps' = Append(steps, "validateBands")
    /\ IF ValidBands(srcMeta.count, red_band_num, nir_band_num)
       THEN /\ pc' = "readRed"
            /\ UNCHANGED <<exc, failedAt>>
       ELSE Raise("ValueError", "validateBands", "readRed")
    /\ UNCHANGED <<input_file, output_file, preexisting, red_band_num,
                   nir_band_num, src, srcMeta, redRaw, nirRaw, red, nir, ndvi,
                   out_meta, dest, released, misuse, stdout, ret, uncaught>>

\* lines 22-26
ValidateBands ==
    /\ pc = "validateBands"
    /\ steps' = Append(steps, "validateBands")
    /\ IF ValidBands(srcMeta.count, red_band_num, nir_band_num)
       THEN /\ pc' = "readRed"
            /\ UNCHANGED <<exc, failedAt>>
       ELSE Raise("ValueError", "validateBands", "exitSrc")
    /\ UNCHANGED <<input_file, output_file, preexisting, red_band_num,
                   nir_band_num, src, srcMeta, redRaw, nirRaw, red, nir, ndvi,
                   out_meta, dest, released, misuse, stdout, ret, uncaught>>

\* line 30: src.read(red_band_num).astype(np.float32)
ReadRed ==
    /\ pc = "readRed"
    /\ steps' = Append(steps, "readBand(red)")
    /\ misuse' = (misuse \/ src # "open")
    /\ \/ /\ \E raw \in BandArrays(srcMeta) :
                /\ redRaw' = raw
                /\ red' = [i \in DOMAIN raw |-> astype(raw[i])]
          /\ pc' = "readNir"
          /\ UNCHANGED <<exc, failedAt>>
       \/ /\ Raise("RasterioIOError", "readBand(red)", "exitSrc")
          /\ UNCHANGED <<redRaw, red>>
    /\ UNCHANGED <<input_file, output_file, preexisting, red_band_num,
                   nir_band_num, src, srcMeta, nirRaw, nir, ndvi, out_meta,
                   dest, released, stdout, ret, uncaught>>

\* line 31: src.read(nir_band_num).astype(np.float32)
ReadNir ==
    /\ pc = "readNir"
    /\ steps' = Append(steps, "readBand(nir)")
    /\ misuse' = (misuse \/ src # "open")
    /\ \/ /\ \E raw \in (IF nir_band_num = red_band_num
                         THEN {redRaw} ELSE BandArrays(srcMeta)) :
                /\ nirRaw' = raw
                /\ nir' = [i \in DOMAIN raw |-> astype(raw[i])]
          /\ pc' = "computeIndex"
          /\ UNCHANGED <<exc, failedAt>>
       \/ /\ Raise("RasterioIOError", "readBand(nir)", "exitSrc")
          /\ UNCHANGED <<nirRaw, nir>>
    /\ UNCHANGED <<input_file, output_file, preexisting, red_band_num,
                   nir_band_num, src, srcMeta, redRaw, red, ndvi, out_meta,
                   dest, released, stdout, ret, uncaught>>

\* lines 35-44
ComputeIndex ==
    /\ pc = "computeIndex"
    /\ steps' = Append(steps, "computeIndex")
    /\ ndvi' = ComputeNdvi(red, nir)
    /\ pc' = "deriveOutputMetadata"
    /\ UNCHANGED <<input_file, output_file, preexisting, red_band_num,
                   nir_band_num, src, srcMeta, redRaw, nirRaw, red, nir,
                   out_meta, dest, exc, failedAt, released, misuse, stdout,
                   ret, uncaught>>

\* lines 49-58
DeriveOutputMetadata ==
    /\ pc = "deriveOutputMetadata"
    /\ steps' = Append(steps, "deriveOutputMetadata")
    /\ out_meta' = UpdateMeta(srcMeta)
    /\ pc' = "create"
    /\ UNCHANGED <<input_file, output_file, preexisting, red_band_num,
                   nir_band_num, src, srcMeta, redRaw, nirRaw, red, nir, ndvi,
                   dest, exc, failedAt, released, misuse, stdout, ret,
                   uncaught>>

\* line 61: rasterio.open(output_path, "w", **out_meta)
Create ==
    /\ pc = "create"
    /\ steps' = Append(steps, "create")
    /\ \/ /\ dest' = "open"
          /\ output_file' = [state |-> "created", meta |-> out_meta,
                             data |-> <<>>, written |-> FALSE]
          /\ pc' = "writeBand"
          /\ UNCHANGED <<exc, failedAt>>
       \/ /\ Raise("RasterioIOError", "create", "exitSrc")
          /\ UNCHANGED <<dest, output_file>>
    /\ UNCHANGED <<input_file, preexisting, red_band_num, nir_band_num, src,
                   srcMeta, redRaw, nirRaw, red, nir, ndvi, out_meta,
                   released, misuse, stdout, ret, uncaught>>

\* line 62: dest.write(ndvi, 1)
WriteBand ==
    /\ pc = "writeBand"
    /\ steps' = Append(steps, "writeBand")
    /\ misuse' = (misuse \/ dest # "open")
    /\ \/ /\ output_file' = [output_file EXCEPT !.data = ndvi, !.written = TRUE]
          /\ UNCHANGED <<exc, failedAt>>
       \/ /\ exc' = "RasterioIOError"
          /\ failedAt' = "writeBand"
          /\ UNCHANGED output_file
    /\ pc' = "exitDest"
    /\ UNCHANGED <<input_file, preexisting, red_band_num, nir_band_num, src,
                   srcMeta, redRaw, nirRaw, red, nir, ndvi, out_meta, dest,
                   released, stdout, ret, uncaught>>

ExitDestOnSuccessOnly ==
    /\ pc = "exitDest"
    /\ IF exc = "None"
       THEN /\ misuse' = (misuse \/ dest # "open")
            /\ dest' = "closed"
            /\ released' = Append(released, "dest")
            /\ output_file' = [output_file EXCEPT !.state = "finalized"]
            /\ steps' = Append(steps, "close")
       ELSE UNCHANGED <<misuse, dest, released, output_file, steps>>
    /\ pc' = "exitSrc"
    /\ UNCHANGED <<input_file, preexisting, red_band_num, nir_band_num, src,
                   srcMeta, redRaw, nirRaw, red, nir, ndvi, out_meta, exc,
                   failedAt, stdout, ret, uncaught>>

\* line 61, end of the inner `with`: dest is closed, exception or not
ExitDest ==
    /\ pc = "exitDest"
    /\ misuse' = (misuse \/ dest # "open")
    /\ dest' = "closed"
    /\ released' = Append(released, "dest")
    /\ output_file' = [output_file EXCEPT !.state = "finalized"]
    /\ steps' = IF exc = "None" THEN Append(steps, "close") ELSE steps
    /\ pc' = "exitSrc"
    /\ UNCHANGED <<input_file, preexisting, red_band_num, nir_band_num, src,
                   srcMeta, redRaw, nirRaw, red, nir, ndvi, out_meta, exc,
                   failedAt, stdout, ret, uncaught>>

\* line 19, end of the outer `with`: src is closed, exception or not
ExitSrc ==
    /\ pc = "exitSrc"
    /\ misuse' = (misuse \/ src # "open")
    /\ src' = "closed"
    /\ released' = Append(released, "src")
    /\ pc' = IF exc = "None" THEN "printComplete" ELSE "except"
    /\ UNCHANGED <<input_file, output_file, preexisting, red_band_num,
                   nir_band_num, srcMeta, redRaw, nirRaw, red, nir, ndvi,
                   out_meta, dest, exc, failedAt, steps, stdout, ret,
                   uncaught>>

\* line 64, and the return that follows it
PrintComplete ==
    /\ pc = "printComplete"
    /\ stdout' = "NDVI calculation complete"
    /\ ret' = NoneVal
    /\ pc' = "done"
    /\ UNCHANGED <<input_file, output_file, preexisting, red_band_num,
                   nir_band_num, src, srcMeta, redRaw, nirRaw, red, nir, ndvi,
                   out_meta, dest, exc, failedAt, steps, released, misuse,
                   uncaught>>

\* lines 66-68
ExceptFileNotFoundError ==
    /\ pc = "except"
    /\ exc = "FileNotFoundError"
    /\ stdout' = "Error: Input file not found"
    /\ ret' = NoneVal
    /\ pc' = "done"
    /\ UNCHANGED <<input_file, output_file, preexisting, red_band_num,
                   nir_band_num, src, srcMeta, redRaw, nirRaw, red, nir, ndvi,
                   out_meta, dest, exc, failedAt, steps, released, misuse,
                   uncaught>>

\* lines 69-70
ExceptException ==
    /\ pc = "except"
    /\ exc # "FileNotFoundError"
    /\ stdout' = "An error occurred"
    /\ ret' = NoneVal
    /\ pc' = "done"
    /\ UNCHANGED <<input_file, output_file, preexisting, red_band_num,
                   nir_band_num, src, srcMeta, redRaw, nirRaw, red, nir, ndvi,
                   out_meta, dest, exc, failedAt, steps, released, misuse,
                   uncaught>>

Next ==
    \/ Open
    \/ ValidateBands
    \/ ReadRed
    \/ ReadNir
    \/ ComputeIndex
    \/ DeriveOutputMetadata
    \/ Create
    \/ WriteBand
    \/ ExitDest
    \/ ExitSrc
    \/ PrintComplete
    \/ ExceptFileNotFoundError
    \/ ExceptException

Spec == Init /\ [][Next]_vars

(* ------------------------------ claims --------------------------------- *)
Ran(s) == \E i \in DOMAIN steps : steps[i] = s

InRange(count, redNum, nirNum) ==
    /\ 1 <= redNum /\ redNum <= count
    /\ 1 <= nirNum /\ nirNum <= count

\* C1: once the band numbers of an opened source with N bands have been
\* validated, the run has failed with the invalid-band error (the ValueError
\* of line 23) if and only if not both 1 <= red <= N and 1 <= nir <= N; when
\* both are in range, equal or not, the run goes on to read the red band.
C1_InvalidBandIff ==
    Ran("validateBands") =>
        LET ok == InRange(srcMeta.count, red_band_num, nir_band_num)
        IN  /\ (failedAt = "validateBands" /\ exc = "ValueError") <=> ~ok
            /\ ok => (pc = "readRed" \/ Ran("readBand(red)"))

C1_Witness ==
    /\ Ran("readBand(red)")
    /\ red_band_num = nir_band_num
    /\ srcMeta.count = MaxBands

PipelineOrder ==
    << "open", "validateBands", "readBand(red)", "readBand(nir)",
       "computeIndex", "deriveOutputMetadata", "create", "writeBand", "close" >>

IsPrefix(s, t) ==
    /\ Len(s) <= Len(t)
    /\ \A i \in 1..Len(s) : s[i] = t[i]

C3_FinalizedOnlyIfWritten ==
    pc = "done" => (output_file.state = "finalized" => output_file.written)

\* C4: when calculate_ndvi has returned after a step failed, what the caller
\* receives (the return value and the exception leaving the call) differs
\* from what it receives after a successful run, and carries the failure.
C4_FailureReported ==
    (pc = "done" /\ failedAt # "none") =>
        /\ <<ret, uncaught>> # <<NoneVal, "None">>
        /\ uncaught = exc

\* (nir - red) / (nir + red) in exact arithmetic, clamped to [-1, 1]
ExactNdvi(r, n) == Clip(Fin(n - r, n + r))

\* C5 as stated: every written pixel with nir + red # 0 equals
\* clamp((nir - red) / (nir + red), -1, 1) of the source samples.
C5_ExactRatio ==
    output_file.written =>
        \A i \in DOMAIN output_file.data :
            nirRaw[i] + redRaw[i] # 0 =>
                output_file.data[i] = ExactNdvi(redRaw[i], nirRaw[i])

\* C5 amended: every written pixel with nir + red # 0 whose two samples have
\* magnitude below 2^23 equals clamp((nir - red) / (nir + red), -1, 1) of the
\* source samples, a fraction and not a truncated or wrapped integer.
C5_ExactRatioSmallSamples ==
    output_file.written =>
        \A i \in DOMAIN output_file.data :
            ( /\ nirRaw[i] + redRaw[i] # 0
              /\ 2 * Abs(nirRaw[i]) < Pow24
              /\ 2 * Abs(redRaw[i]) < Pow24 ) =>
                output_file.data[i] = ExactNdvi(redRaw[i], nirRaw[i])

C5_Witness ==
    /\ output_file.written
    /\ srcMeta.dtype = "uint16"
    /\ \E i \in DOMAIN output_file.data :
          /\ redRaw[i] = 3000 /\ nirRaw[i] = 1000
          /\ output_file.data[i] = [k |-> "fin", n |-> 0 - 1, d |-> 2]

\* C6: every written pixel with nir + red = 0 is exactly 0: a finite value,
\* not NaN, not an infinity and not the -9999 no-data value.
C6_ZeroDenominator ==
    output_file.written =>
        \A i \in DOMAIN output_file.data :
            nirRaw[i] + redRaw[i] = 0 =>
                /\ output_file.data[i] = Zero
                /\ output_file.data[i].k = "fin"
                /\ output_file.data[i] # [k |-> "fin", n |-> 0 - 9999, d |-> 1]

C6_Witness ==
    /\ output_file.written
    /\ \E i \in DOMAIN output_file.data :
          /\ nirRaw[i] + redRaw[i] = 0
          /\ nirRaw[i] - redRaw[i] # 0
          /\ output_file.data[i] = Zero

\* C7: every written pixel is a finite value in the closed interval [-1, 1].
C7_Range ==
    output_file.written =>
        \A i \in DOMAIN output_file.data :
            /\ output_file.data[i].k = "fin"
            /\ output_file.data[i].d > 0
            /\ 0 - output_file.data[i].d <= output_file.data[i].n
            /\ output_file.data[i].n <= output_file.data[i].d

C7_Witness ==
    /\ output_file.written
    /\ \E i \in DOMAIN output_file.data :
          /\ redRaw[i] < 0 /\ nirRaw[i] > 0
          /\ nirRaw[i] + redRaw[i] # 0
          /\ Abs(nirRaw[i] - redRaw[i]) > Abs(nirRaw[i] + redRaw[i])
          /\ output_file.data[i] = MinusOne

\* C8: the derived metadata has the source's width, height, crs and transform
\* and count 1, dtype float32, nodata -9999; the destination is created with
\* it; the source's metadata is what the input file declared; and deriving
\* again from the derived metadata gives the same metadata.
C8_OutputMetadata ==
    Ran("deriveOutputMetadata") =>
        /\ out_meta.width = input_file.meta.width
        /\ out_meta.height = input_file.meta.height
        /\ out_meta.crs = input_file.meta.crs
        /\ out_meta.transform = input_file.meta.transform
        /\ out_meta.count = 1
        /\ out_meta.dtype = "float32"
        /\ out_meta.nodata = <<0 - 9999>>
        /\ srcMeta = input_file.meta
        /\ UpdateMeta(out_meta) = out_meta
        /\ output_file.state \in {"created", "finalized"}
             => output_file.meta = out_meta

C8_Witness ==
    /\ output_file.state = "finalized"
    /\ output_file.written
    /\ input_file.meta.count = MaxBands
    /\ input_file.meta.dtype = "uint16"
    /\ input_file.meta.nodata = <<0>>
    /\ output_file.meta.nodata = <<0 - 9999>>

Neg(x) == [x EXCEPT !.n = 0 - x.n]

\* C9: for every pixel, the index computed from the two bands read is the
\* negation of the index computed with the two bands exchanged, also where
\* the value is clamped; where nir + red = 0 both are 0.
C9_Antisymmetric ==
    Ran("computeIndex") =>
        \A i \in DOMAIN ndvi :
            LET swapped == NdviPixel(astype(nirRaw[i]), astype(redRaw[i]))
            IN  /\ swapped = Neg(ndvi[i])
                /\ nirRaw[i] + redRaw[i] = 0 => (ndvi[i] = Zero /\ swapped = Zero)

C9_Witness ==
    /\ Ran("computeIndex")
    /\ \E i \in DOMAIN ndvi :
          /\ ndvi[i] = One
          /\ nirRaw[i] + redRaw[i] # 0
          /\ ExactNdvi(redRaw[i], nirRaw[i]) # Fin(nirRaw[i] - redRaw[i], nirRaw[i] + redRaw[i])
          /\ NdviPixel(astype(nirRaw[i]), astype(redRaw[i])) = MinusOne

\* C10: no handle is used or released unless it is open; the handles are
\* released at most once each, dest before src; and when calculate_ndvi has
\* returned, no handle is open: src was released unless open failed, and dest
\* was released if create succeeded.
C10_HandlesReleased ==
    /\ ~misuse
    /\ released \in { <<>>, <<"src">>, <<"dest">>, <<"dest", "src">> }
    /\ pc = "done" =>
          /\ src # "open" /\ dest # "open"
          /\ (failedAt # "open") => (src = "closed" /\ released[Len(released)] = "src")
          /\ Ran("writeBand") => (dest = "closed" /\ released = <<"dest", "src">>)

C10_Witness ==
    /\ pc = "done"
    /\ failedAt = "writeBand"
    /\ released = <<"dest", "src">>
    /\ src = "closed" /\ dest = "closed"

====
